---------------------------- MODULE Spec2Model ----------------------------
(***************************************************************************)
(* PULSO backend: the chat router (intent detection, context assembly)     *)
(* and the Gemini service (ECG analysis, reply parsing, chat, HRV).        *)
(*                                                                         *)
(* Python strings are modelled as sequences of one-character strings for   *)
(* chat messages and session ids, and as sequences of lexical tokens for   *)
(* the text returned by the AI endpoint.  Each behaviour is one call: one  *)
(* operation runs on inputs and collaborator answers drawn from bounded    *)
(* sets and leaves its outcome in the variables (no state is shared        *)
(* between requests).                                                      *)
(***************************************************************************)
EXTENDS Integers, Sequences, FiniteSets, TLC

VARIABLES
    op,         \* the operation that has run ("idle" before any)
    args,       \* its arguments and what its collaborators hold or answer
    ret,        \* its outcome: returned value or raised exception
    effects     \* the outbound calls it made, in order

vars == <<op, args, ret, effects>>

-----------------------------------------------------------------------------
(* Bounds of the model *)

MaxStored == 8      \* stored sessions of the user
MaxWords == 2       \* fragments a chat message is built from
MaxIds == 2         \* session ids handed to _build_context
MaxPeaks == 4       \* R-peak records handed to _calculate_hrv

-----------------------------------------------------------------------------
(* Generic helpers *)

Min(a, b) == IF a < b THEN a ELSE b

Take(s, n) == SubSeq(s, 1, Min(n, Len(s)))

\* All sequences over S of length 0..n
RECURSIVE SeqsUpTo(_, _)
SeqsUpTo(S, n) ==
    IF n = 0 THEN {<<>>}
    ELSE LET shorter == SeqsUpTo(S, n - 1)
         IN  shorter \cup {Append(s, x) : s \in {t \in shorter : Len(t) = n - 1}, x \in S}

RECURSIVE Flatten(_)
Flatten(ss) == IF ss = <<>> THEN <<>> ELSE Head(ss) \o Flatten(Tail(ss))

\* Python: needle in haystack (substring test)
Contains(hay, needle) ==
    \E i \in 1..(Len(hay) - Len(needle) + 1) :
        SubSeq(hay, i, i + Len(needle) - 1) = needle

\* Optional[str]
None == [some |-> FALSE, s |-> <<>>]
Some(s) == [some |-> TRUE, s |-> s]

\* Python truthiness of an Optional[str]: None and "" are falsy
Truthy(o) == o.some /\ o.s # <<>>

Returned(v) == [raised |-> FALSE, exc |-> "", val |-> v]
Raised(e) == [raised |-> TRUE, exc |-> e, val |-> <<>>]

NoEffects == <<>>

-----------------------------------------------------------------------------
(* str.lower() *)

UpperAlpha == <<"A","B","C","D","E","F","G","H","I","J","K","L","M",
                "N","O","P","Q","R","S","T","U","V","W","X","Y","Z">>
LowerAlpha == <<"a","b","c","d","e","f","g","h","i","j","k","l","m",
                "n","o","p","q","r","s","t","u","v","w","x","y","z">>

LowerMap == [c \in {UpperAlpha[i] : i \in 1..Len(UpperAlpha)} |->
                LowerAlpha[CHOOSE i \in 1..Len(UpperAlpha) : UpperAlpha[i] = c]]

LowerChar(c) == IF c \in DOMAIN LowerMap THEN LowerMap[c] ELSE c

Lower(s) == [i \in 1..Len(s) |-> LowerChar(s[i])]

-----------------------------------------------------------------------------
(* Storage collaborator (SupabaseService) *)

DigitChar == <<"0","1","2","3","4","5","6","7","8","9">>

IsDigit(c) == \E i \in 1..Len(DigitChar) : DigitChar[i] = c
DigitValue(c) == (CHOOSE i \in 1..Len(DigitChar) : DigitChar[i] = c) - 1

\* str(n) of a natural number
RECURSIVE IntToStr(_)
IntToStr(n) ==
    IF n < 10 THEN <<DigitChar[n + 1]>>
    ELSE IntToStr(n \div 10) \o <<DigitChar[(n % 10) + 1]>>

\* int(s) of a string of digits and letters: a ValueError unless s is a
\* non-empty run of decimal digits
IntParses(s) == s # <<>> /\ \A i \in 1..Len(s) : IsDigit(s[i])
RECURSIVE IntOf(_)
IntOf(s) ==
    IF s = <<>> THEN 0 ELSE 10 * IntOf(SubSeq(s, 1, Len(s) - 1)) + DigitValue(s[Len(s)])

\* a null heart rate of a stored session
NullRate == -1

\* A stored session; average_heart_rate in tenths of a BPM, or null
SessionRecord(id, rate) == [id |-> id, average_heart_rate |-> rate]

\* n sessions with ids n..1, most recent first; with nullLatest the most
\* recent one has a null average_heart_rate
Storage(n, nullLatest) ==
    [i \in 1..n |-> SessionRecord(n + 1 - i,
                                  IF i = 1 /\ nullLatest THEN NullRate ELSE 700 + i)]

Storages ==
    {Storage(n, b) : n \in 0..MaxStored, b \in BOOLEAN} \ {Storage(0, TRUE)}

\* supabase.get_recent_sessions_basic(user_id, limit)
get_recent_sessions_basic(store, limit) == Take(store, limit)

\* supabase.get_complete_session(session_id, user_id): the record or None
HasSession(store, id) == \E i \in 1..Len(store) : store[i].id = id
get_complete_session(store, id) ==
    store[CHOOSE i \in 1..Len(store) : store[i].id = id]

-----------------------------------------------------------------------------
(* _detect_intent *)

ComparisonKeywords ==
    << <<"c","o","m","p","a","r","e">>,
       <<"c","o","m","p","a","r","i","s","o","n">>,
       <<"v","e","r","s","u","s">>,
       <<"v","s">>,
       <<"d","i","f","f","e","r","e","n","c","e">> >>

TrendKeywords ==
    << <<"t","r","e","n","d">>,
       <<"w","e","e","k">>,
       <<"m","o","n","t","h">>,
       <<"o","v","e","r"," ","t","i","m","e">>,
       <<"h","i","s","t","o","r","y">>,
       <<"p","r","o","g","r","e","s","s">> >>

SessionKeywords ==
    << <<"l","a","s","t"," ","s","e","s","s","i","o","n">>,
       <<"r","e","c","e","n","t">>,
       <<"m","y"," ","s","e","s","s","i","o","n">>,
       <<"t","o","d","a","y">>,
       <<"y","e","s","t","e","r","d","a","y">>,
       <<"h","e","a","r","t"," ","r","a","t","e">>,
       <<"h","r","v">>,
       <<"e","c","g">> >>

ComparisonLimit == 2
TrendLimit == 7
SessionQueryLimit == 1

\* any(word in message_lower for word in words)
AnyKeyword(message_lower, words) ==
    \E k \in 1..Len(words) : Contains(message_lower, words[k])

\* [s["id"] for s in sessions]
IdsOf(recent) == [i \in 1..Len(recent) |-> IntToStr(recent[i].id)]

IntentResult(intent, ids, lookups) ==
    [intent |-> intent, session_ids |-> ids, lookups |-> lookups]

\* Mutant: the keyword branches are tried before the explicit session id
DetectIntentKeywordsFirst(message, session_id, store) ==
    LET message_lower == Lower(message)
    IN  IF AnyKeyword(message_lower, ComparisonKeywords)
        THEN IntentResult("comparison",
                          IdsOf(get_recent_sessions_basic(store, ComparisonLimit)),
                          <<ComparisonLimit>>)
        ELSE IF Truthy(session_id)
        THEN IntentResult("session_specific", <<session_id.s>>, <<>>)
        ELSE IntentResult("general_health", <<>>, <<>>)

\* Mutant: the trend keywords are tried before the comparison keywords
DetectIntentTrendFirst(message, session_id, store) ==
    LET message_lower == Lower(message)
    IN  IF Truthy(session_id)
        THEN IntentResult("session_specific", <<session_id.s>>, <<>>)
        ELSE IF AnyKeyword(message_lower, TrendKeywords)
        THEN IntentResult("trend_analysis",
                          IdsOf(get_recent_sessions_basic(store, TrendLimit)),
                          <<TrendLimit>>)
        ELSE IF AnyKeyword(message_lower, ComparisonKeywords)
        THEN IntentResult("comparison",
                          IdsOf(get_recent_sessions_basic(store, ComparisonLimit)),
                          <<ComparisonLimit>>)
        ELSE IF AnyKeyword(message_lower, SessionKeywords)
        THEN IntentResult("session_query",
                          IdsOf(get_recent_sessions_basic(store, SessionQueryLimit)),
                          <<SessionQueryLimit>>)
        ELSE IntentResult("general_health", <<>>, <<>>)

\* The value _detect_intent returns, and the limits it asked the
\* recent-sessions collaborator for (lookups)
DetectIntentResult(message, session_id, store) ==
    LET message_lower == Lower(message)
    IN  IF Truthy(session_id)
        THEN IntentResult("session_specific", <<session_id.s>>, <<>>)
        ELSE IF AnyKeyword(message_lower, ComparisonKeywords)
        THEN IntentResult("comparison",
                          IdsOf(get_recent_sessions_basic(store, ComparisonLimit)),
                          <<ComparisonLimit>>)
        ELSE IF AnyKeyword(message_lower, TrendKeywords)
        THEN IntentResult("trend_analysis",
                          IdsOf(get_recent_sessions_basic(store, TrendLimit)),
                          <<TrendLimit>>)
        ELSE IF AnyKeyword(message_lower, SessionKeywords)
        THEN IntentResult("session_query",
                          IdsOf(get_recent_sessions_basic(store, SessionQueryLimit)),
                          <<SessionQueryLimit>>)
        ELSE IntentResult("general_health", <<>>, <<>>)

\* Chat messages: concatenations of up to MaxWords fragments
Fragments ==
    { <<"C","o","m","p","a","r","e">>,
      <<"V","S">>,
      <<"T","r","e","n","d">>,
      <<"w","e","e","k">>,
      <<"o","v","e","r"," ","t","i","m","e">>,
      <<"H","R","V">>,
      <<"H","e","a","r","t"," ","R","a","t","e">>,
      <<"d","i","e","t">> }

Messages == {Flatten(ws) : ws \in SeqsUpTo(Fragments, MaxWords)}

\* Session id strings: "", "1", "2", "a"
IdStrings == { <<>>, <<"1">>, <<"2">>, <<"a">> }

\* request.session_id: absent (None) or any string, the empty one included
OptionalIds == {None} \cup {Some(s) : s \in IdStrings}

DetectIntent ==
    /\ op = "idle"
    /\ \E message \in Messages, session_id \in OptionalIds, store \in Storages :
         LET r == DetectIntentResult(message, session_id, store)
         IN  /\ op' = "detect_intent"
             /\ args' = [message |-> message, session_id |-> session_id,
                         store |-> store]
             /\ ret' = Returned([intent |-> r.intent, session_ids |-> r.session_ids])
             /\ effects' = [i \in 1..Len(r.lookups) |->
                              [call |-> "get_recent_sessions_basic", limit |-> r.lookups[i]]]

-----------------------------------------------------------------------------
(* _build_context *)

\* One rendered block of the context: its label, the id as given, and the
\* session's average heart rate (formatted with one decimal)
\* Mutant: blocks are numbered from 1 whatever their position
LabelAlwaysFirst(i, n) ==
    IF n > 1 THEN [text |-> "Session", n |-> 1]
    ELSE [text |-> "Latest Session", n |-> 0]

Label(i, n) ==
    IF n > 1 THEN [text |-> "Session", n |-> i]
    ELSE [text |-> "Latest Session", n |-> 0]

Block(i, n, session_id, session) ==
    [label |-> Label(i, n), id |-> session_id,
     average_heart_rate |-> session.average_heart_rate]

Lookup(id) == [call |-> "get_complete_session", id |-> id]

BuildState(parts, lookups, exc) == [parts |-> parts, lookups |-> lookups, exc |-> exc]

\* The loop over enumerate(session_ids), from index i on: the blocks
\* appended, the storage lookups made, and the exception that ended it
RECURSIVE BuildParts(_, _, _, _)
BuildParts(session_ids, i, store, st) ==
    IF i > Len(session_ids) THEN st
    ELSE LET session_id == session_ids[i]
         IN  IF ~IntParses(session_id)
             THEN BuildState(st.parts, st.lookups, "ValueError")
             ELSE LET id == IntOf(session_id)
                      looked == Append(st.lookups, Lookup(id))
                  IN  IF ~HasSession(store, id)
                      THEN BuildParts(session_ids, i + 1, store,
                                      BuildState(st.parts, looked, ""))
                      ELSE LET session == get_complete_session(store, id)
                           IN  IF session.average_heart_rate = NullRate
                               THEN BuildState(st.parts, looked, "TypeError")
                               ELSE BuildParts(session_ids, i + 1, store,
                                        BuildState(
                                            Append(st.parts,
                                                   Block(i, Len(session_ids),
                                                         session_id, session)),
                                            looked, ""))

\* _build_context: the context is the sequence of its blocks ("" is none)
BuildContextResult(session_ids, store) ==
    IF session_ids = <<>> THEN BuildState(<<>>, <<>>, "")
    ELSE BuildParts(session_ids, 1, store, BuildState(<<>>, <<>>, ""))

IdLists == SeqsUpTo(IdStrings, MaxIds)

BuildContext ==
    /\ op = "idle"
    /\ \E session_ids \in IdLists, store \in Storages :
         LET r == BuildContextResult(session_ids, store)
         IN  /\ op' = "build_context"
             /\ args' = [session_ids |-> session_ids, store |-> store]
             /\ ret' = IF r.exc = "" THEN Returned(r.parts) ELSE Raised(r.exc)
             /\ effects' = r.lookups

-----------------------------------------------------------------------------
(* _calculate_hrv *)

\* An R-peak record's rr_interval: absent, null, or a number (ms)
RRAbsent == [present |-> FALSE, null |-> FALSE, v |-> 0]
RRNull == [present |-> TRUE, null |-> TRUE, v |-> 0]
RR(v) == [present |-> TRUE, null |-> FALSE, v |-> v]

\* Mutant: the "> 0" test is dropped, negative intervals pass
ValidRRTruthyOnly(p) == p.present /\ ~p.null /\ p.v # 0

\* p.get("rr_interval") and p.get("rr_interval") > 0
ValidRR(p) == p.present /\ ~p.null /\ p.v # 0 /\ p.v > 0

\* the list comprehension: the rr_interval of the peaks passing the filter
RECURSIVE FilterRR(_)
FilterRR(r_peaks) ==
    IF r_peaks = <<>> THEN <<>>
    ELSE (IF ValidRR(Head(r_peaks)) THEN <<Head(r_peaks).v>> ELSE <<>>)
         \o FilterRR(Tail(r_peaks))

RECURSIVE Sum(_)
Sum(s) == IF s = <<>> THEN 0 ELSE Head(s) + Sum(Tail(s))

Squares(s) == [i \in 1..Len(s) |-> s[i] * s[i]]

\* floor of the square root, by bisection on lo..hi
RECURSIVE SqrtIn(_, _, _)
SqrtIn(x, lo, hi) ==
    IF lo >= hi THEN lo
    ELSE LET mid == (lo + hi + 1) \div 2
         IN  IF mid * mid <= x THEN SqrtIn(x, mid, hi) ELSE SqrtIn(x, lo, mid - 1)

ISqrt(x) == SqrtIn(x, 0, 46340)

\* Float results are kept in hundredths of a millisecond; a radicand too
\* large for that within 32 bits is rooted in whole milliseconds
Scale == 100
MaxExact == 200000

\* floor(Scale * sqrt(num / den))
ScaledSqrt(num, den) ==
    IF num <= MaxExact THEN ISqrt((Scale * Scale * num) \div den)
    ELSE Scale * ISqrt(num \div den)

\* statistics.stdev: the sample standard deviation,
\* sqrt((n*sum(x^2) - sum(x)^2) / (n*(n-1)))
Stdev(xs) ==
    LET n == Len(xs)
        num == n * Sum(Squares(xs)) - Sum(xs) * Sum(xs)
    IN  ScaledSqrt(num, n * (n - 1))

Abs(x) == IF x < 0 THEN -x ELSE x

SuccessiveDiffs(xs) == [i \in 1..(Len(xs) - 1) |-> Abs(xs[i + 1] - xs[i])]

\* Mutant: the squared differences are averaged over the number of
\* intervals instead of the number of differences
RmssdOverIntervals(xs) ==
    LET d == SuccessiveDiffs(xs)
    IN  IF d # <<>> THEN ScaledSqrt(Sum(Squares(d)), Len(xs)) ELSE 0

\* (sum(d**2 for d in successive_diffs) / len(successive_diffs)) ** 0.5
Rmssd(xs) ==
    LET d == SuccessiveDiffs(xs)
    IN  IF d # <<>> THEN ScaledSqrt(Sum(Squares(d)), Len(d)) ELSE 0

Hrv(sdnn, rmssd) == [sdnn |-> sdnn, rmssd |-> rmssd]

CalculateHrvResult(r_peaks) ==
    IF Len(r_peaks) < 2 THEN Hrv(0, 0)
    ELSE LET rr_intervals == FilterRR(r_peaks)
         IN  IF Len(rr_intervals) < 2 THEN Hrv(0, 0)
             ELSE Hrv(Stdev(rr_intervals), Rmssd(rr_intervals))

RRValues == {RRAbsent, RRNull, RR(0), RR(-5), RR(790), RR(800), RR(805), RR(810)}

PeakLists == SeqsUpTo(RRValues, MaxPeaks)

CalculateHrv ==
    /\ op = "idle"
    /\ \E r_peaks \in PeakLists :
         /\ op' = "calculate_hrv"
         /\ args' = [r_peaks |-> r_peaks]
         /\ ret' = Returned(CalculateHrvResult(r_peaks))
         /\ effects' = NoEffects

-----------------------------------------------------------------------------
(* Text returned by the AI endpoint, and JSON *)

\* A JSON value: t is its type ("str", "num", "null", "bool", "list",
\* "obj"), s its literal text, o the members of an object in order.
\* A text is a sequence of tokens: single characters (t = "c") and the
\* literals of scalar JSON values, which are their own tokens.
Value(t, s, o) == [t |-> t, s |-> s, o |-> o]
Char(c) == Value("c", c, <<>>)
Str(s) == Value("str", s, <<>>)
Num(s) == Value("num", s, <<>>)
Null == Value("null", "null", <<>>)
List(s) == Value("list", s, <<>>)
Obj(members) == Value("obj", "", members)
Member(k, v) == [k |-> k, val |-> v]

LB == Char("{")
RB == Char("}")
Comma == Char(",")
Colon == Char(":")
Space == Char(" ")
NL == Char("LF")
Tick == Char("BACKTICK")
Junk == Char("x")

Fence == <<Tick, Tick, Tick>>

IsSpace(tok) == tok = Space \/ tok = NL

\* str.strip()
RECURSIVE LStrip(_)
LStrip(text) ==
    IF text # <<>> /\ IsSpace(Head(text)) THEN LStrip(Tail(text)) ELSE text

RECURSIVE RStrip(_)
RStrip(text) ==
    IF text # <<>> /\ IsSpace(text[Len(text)])
    THEN RStrip(SubSeq(text, 1, Len(text) - 1))
    ELSE text

Strip(text) == RStrip(LStrip(text))

StartsWith(text, prefix) ==
    Len(text) >= Len(prefix) /\ SubSeq(text, 1, Len(prefix)) = prefix

EndsWith(text, suffix) ==
    Len(text) >= Len(suffix)
    /\ SubSeq(text, Len(text) - Len(suffix) + 1, Len(text)) = suffix

\* str.find / str.rfind of one character: a position from 1, or 0 (for -1)
Find(text, tok) ==
    IF \E i \in 1..Len(text) : text[i] = tok
    THEN CHOOSE i \in 1..Len(text) : text[i] = tok /\ \A j \in 1..(i - 1) : text[j] # tok
    ELSE 0

RFind(text, tok) ==
    IF \E i \in 1..Len(text) : text[i] = tok
    THEN CHOOSE i \in 1..Len(text) :
            text[i] = tok /\ \A j \in (i + 1)..Len(text) : text[j] # tok
    ELSE 0

\* the characters a literal takes in the text
WordLen ==
    [w \in {"X", "high", "abc", "0.9", "1", "null", "a,b", "", "c", "e", "s", "d", "r"} |->
        CASE w = "high" -> 4
          [] w = "null" -> 4
          [] w \in {"abc", "0.9"} -> 3
          [] w = "a,b" -> 7
          [] w = "" -> 0
          [] OTHER -> 1]

KeyLen ==
    [k \in {"prediction", "confidence", "risk_level", "recommendations",
            "clinical_analysis", "simple_explanation", "detailed_analysis",
            "summary", "rhythm_assessment", "rate_analysis",
            "hrv_interpretation", "clinical_significance", "other"} |->
        CASE k \in {"prediction", "confidence", "risk_level"} -> 10
          [] k = "recommendations" -> 15
          [] k \in {"clinical_analysis", "detailed_analysis", "rhythm_assessment"} -> 17
          [] k \in {"simple_explanation", "hrv_interpretation"} -> 18
          [] k = "summary" -> 7
          [] k = "rate_analysis" -> 13
          [] k = "clinical_significance" -> 21
          [] OTHER -> 5]

CharLen(tok) ==
    CASE tok.t = "c" -> 1
      [] tok.t = "str" ->
            2 + (IF tok.s \in DOMAIN KeyLen THEN KeyLen[tok.s] ELSE WordLen[tok.s])
      [] tok.t = "list" -> 2 + WordLen[tok.s]
      [] OTHER -> WordLen[tok.s]

\* len(text), summed by halves
RECURSIVE TextLen(_)
TextLen(text) ==
    IF text = <<>> THEN 0
    ELSE IF Len(text) = 1 THEN CharLen(text[1])
    ELSE LET half == Len(text) \div 2
         IN  TextLen(SubSeq(text, 1, half)) + TextLen(SubSeq(text, half + 1, Len(text)))

\* a literal cut short by a slice
Cut(tok, n) == Value("cut", tok.s, <<Member("chars", tok)>>)

\* text[:n], taken by halves: the tokens that fit in n characters, and the
\* cut one if the n-th character falls inside a literal
RECURSIVE Prefix(_, _)
Prefix(text, n) ==
    IF text = <<>> \/ n <= 0 THEN <<>>
    ELSE IF Len(text) = 1
         THEN (IF CharLen(text[1]) <= n THEN text ELSE <<Cut(text[1], n)>>)
    ELSE LET half == Len(text) \div 2
             left == SubSeq(text, 1, half)
         IN  IF TextLen(left) >= n THEN Prefix(left, n)
             ELSE left \o Prefix(SubSeq(text, half + 1, Len(text)), n - TextLen(left))

-----------------------------------------------------------------------------
(* json.loads *)

RECURSIVE SkipWs(_, _)
SkipWs(text, i) ==
    IF i <= Len(text) /\ IsSpace(text[i]) THEN SkipWs(text, i + 1) ELSE i

ParseOk(pos, val) == [ok |-> TRUE, pos |-> pos, val |-> val]
ParseFail == [ok |-> FALSE, pos |-> 0, val |-> Null]

IsScalar(tok) == tok.t \in {"str", "num", "null", "bool", "list"}

\* dict insertion: a repeated key keeps its place and takes the new value
Put(members, k, v) ==
    IF \E i \in 1..Len(members) : members[i].k = k
    THEN [i \in 1..Len(members) |->
            IF members[i].k = k THEN Member(k, v) ELSE members[i]]
    ELSE Append(members, Member(k, v))

RECURSIVE ParseValue(_, _)
RECURSIVE ParseMembers(_, _, _)

\* a value starting at token i
ParseValue(text, i) ==
    IF i > Len(text) THEN ParseFail
    ELSE IF IsScalar(text[i]) THEN ParseOk(i + 1, text[i])
    ELSE IF text[i] = LB
         THEN LET j == SkipWs(text, i + 1)
              IN  IF j <= Len(text) /\ text[j] = RB
                  THEN ParseOk(j + 1, Obj(<<>>))
                  ELSE ParseMembers(text, j, <<>>)
    ELSE ParseFail

\* "key" : value, then "," and more members, or the closing brace
ParseMembers(text, i, members) ==
    IF i > Len(text) \/ text[i].t # "str" THEN ParseFail
    ELSE LET c == SkipWs(text, i + 1)
         IN  IF c > Len(text) \/ text[c] # Colon THEN ParseFail
             ELSE LET v == ParseValue(text, SkipWs(text, c + 1))
                  IN  IF ~v.ok THEN ParseFail
                      ELSE LET e == SkipWs(text, v.pos)
                               put == Put(members, text[i].s, v.val)
                           IN  IF e > Len(text) THEN ParseFail
                               ELSE IF text[e] = RB THEN ParseOk(e + 1, Obj(put))
                               ELSE IF text[e] = Comma
                                    THEN ParseMembers(text, SkipWs(text, e + 1), put)
                               ELSE ParseFail

\* json.loads(text): one value and nothing but white space around it
JsonLoads(text) ==
    LET v == ParseValue(text, SkipWs(text, 1))
    IN  IF v.ok /\ SkipWs(text, v.pos) = Len(text) + 1 THEN v ELSE ParseFail

\* dict.get(key, default)
Get(obj, k, default) ==
    IF \E i \in 1..Len(obj.o) : obj.o[i].k = k
    THEN obj.o[CHOOSE i \in 1..Len(obj.o) : obj.o[i].k = k].val
    ELSE default

-----------------------------------------------------------------------------
(* _parse_response *)

\* the number a numeric literal denotes, in hundredths
NumLit == [w \in {"0.9", "1", "0.75"} |->
              CASE w = "0.9" -> 90 [] w = "1" -> 100 [] OTHER -> 75]

\* float(v): the exception it raises, "" when it returns
FloatError(v) ==
    CASE v.t = "num" -> ""
      [] v.t = "bool" -> ""
      [] v.t = "str" -> IF v.s \in DOMAIN NumLit THEN "" ELSE "ValueError"
      [] OTHER -> "TypeError"

FloatOf(v) ==
    CASE v.t = "bool" -> (IF v.s = "true" THEN 100 ELSE 0)
      [] OTHER -> NumLit[v.s]

\* a Python string made of raw text
Text(text) == Value("text", "", [i \in 1..Len(text) |-> Member("", text[i])])

PredictionMax == 200
DefaultConfidence == Num("0.75")
FallbackConfidence == 50

AnalysisResult(prediction, confidence, risk, recs, clinical, diagnosis, detailed, summary) ==
    [prediction |-> prediction, confidence_score |-> confidence,
     risk_level |-> risk, recommendations |-> recs,
     clinical_analysis |-> clinical, diagnosis_summary |-> diagnosis,
     detailed_analysis |-> detailed, summary |-> summary]

\* the fallback: the raw text, cut to 200 characters
ParseFallback(text) ==
    AnalysisResult(Text(Prefix(text, PredictionMax)), FallbackConfidence, Str("low"),
                   List("Please consult a healthcare professional for interpretation"),
                   Str(""), Str(""), Str(""), Str(""))

\* the code fences stripped
StripFences(text) ==
    LET clean_text == Strip(text)
    IN  IF StartsWith(clean_text, Fence)
        THEN LET first_newline == Find(clean_text, NL)
                 opened == IF first_newline > 1
                           THEN SubSeq(clean_text, first_newline + 1, Len(clean_text))
                           ELSE clean_text
             IN  IF EndsWith(opened, Fence)
                 THEN Strip(SubSeq(opened, 1, Len(opened) - Len(Fence)))
                 ELSE opened
        ELSE clean_text

\* the four-section text of a detailed_analysis object
DetailedSections ==
    <<"rhythm_assessment", "rate_analysis", "hrv_interpretation", "clinical_significance">>

DetailedText(detailed) ==
    IF detailed.t = "obj" /\ detailed.o # <<>>
    THEN Value("str", "sections",
               [i \in 1..Len(DetailedSections) |->
                   Member(DetailedSections[i],
                          Get(detailed, DetailedSections[i], Str("N/A")))])
    ELSE IF detailed.t = "str" THEN detailed
    ELSE Str("")

\* Mutant: diagnosis_summary is read from the key "diagnosis_summary"
\* and the confidence defaults to the fallback's 0.5
ParsedFieldsWrongKeys(data) ==
    AnalysisResult(Get(data, "prediction", Str("ECG Analysis Complete")),
                   IF \E i \in 1..Len(data.o) : data.o[i].k = "confidence"
                   THEN FloatOf(Get(data, "confidence", DefaultConfidence))
                   ELSE FallbackConfidence,
                   Get(data, "risk_level", Str("low")),
                   Get(data, "recommendations", List("")),
                   Get(data, "clinical_analysis", Str("")),
                   Get(data, "diagnosis_summary", Str("")),
                   DetailedText(Get(data, "detailed_analysis", Obj(<<>>))),
                   Get(data, "summary", Str("")))

\* the dictionary returned on a successful parse
ParsedFields(data) ==
    AnalysisResult(Get(data, "prediction", Str("ECG Analysis Complete")),
                   FloatOf(Get(data, "confidence", DefaultConfidence)),
                   Get(data, "risk_level", Str("low")),
                   Get(data, "recommendations", List("")),
                   Get(data, "clinical_analysis", Str("")),
                   Get(data, "simple_explanation", Str("")),
                   DetailedText(Get(data, "detailed_analysis", Obj(<<>>))),
                   Get(data, "summary", Str("")))

ParseResponseResult(text) ==
    LET clean_text == StripFences(text)
        start == Find(clean_text, LB)
        end == RFind(clean_text, RB)
    IN  IF start >= 1 /\ end > start
        THEN LET data == JsonLoads(SubSeq(clean_text, start, end))
             IN  IF ~data.ok THEN Returned(ParseFallback(text))   \* JSONDecodeError
                 ELSE LET err == FloatError(Get(data.val, "confidence", DefaultConfidence))
                      IN  IF err = "ValueError" THEN Returned(ParseFallback(text))
                          ELSE IF err # "" THEN Raised(err)
                          ELSE Returned(ParsedFields(data.val))
        ELSE Returned(ParseFallback(text))

-----------------------------------------------------------------------------
(* Texts the AI endpoint may return *)

MaxMembers == 2     \* members of a generated JSON object

\* the members a generated object is made of
MemberChoices ==
    { Member("prediction", Str("X")),
      Member("confidence", Num("0.9")),
      Member("confidence", Str("0.9")),
      Member("confidence", Str("abc")),
      Member("confidence", Null),
      Member("confidence", List("a,b")),
      Member("risk_level", Str("high")),
      Member("recommendations", List("a,b")),
      Member("clinical_analysis", Str("c")),
      Member("simple_explanation", Str("e")),
      Member("summary", Str("s")),
      Member("detailed_analysis", Obj(<<Member("rhythm_assessment", Str("r"))>>)),
      Member("detailed_analysis", Obj(<<>>)),
      Member("detailed_analysis", Str("d")),
      Member("detailed_analysis", List("a,b")) }

\* json.dumps of a value; pretty puts each member on its own line
RECURSIVE Serialize(_, _)
RECURSIVE SerializeMembers(_, _)
Serialize(v, pretty) ==
    IF v.t = "obj"
    THEN <<LB>> \o (IF pretty THEN <<NL>> ELSE <<>>)
              \o SerializeMembers(v.o, pretty)
              \o (IF pretty THEN <<NL>> ELSE <<>>) \o <<RB>>
    ELSE <<v>>

SerializeMembers(members, pretty) ==
    IF members = <<>> THEN <<>>
    ELSE <<Str(Head(members).k), Colon, Space>> \o Serialize(Head(members).val, pretty)
         \o (IF Tail(members) = <<>> THEN <<>>
             ELSE <<Comma, IF pretty THEN NL ELSE Space>>
                  \o SerializeMembers(Tail(members), pretty))

Wrapper(name, pre, post, pretty) ==
    [name |-> name, pre |-> pre, post |-> post, pretty |-> pretty]

\* what surrounds the object in the reply
Wrappers ==
    { Wrapper("bare", <<>>, <<>>, FALSE),
      Wrapper("fence_tag", Fence \o <<Junk, NL>>, <<NL>> \o Fence, FALSE),
      Wrapper("fence_tag_pretty", Fence \o <<Junk, NL>>, <<NL>> \o Fence, TRUE),
      Wrapper("fence", Fence \o <<NL>>, <<NL>> \o Fence, FALSE),
      Wrapper("fence_spaced", <<Space>> \o Fence \o <<NL>>, Fence \o <<NL, Space>>, FALSE),
      Wrapper("prose", <<Junk, Space>>, <<Space, Junk>>, TRUE),
      Wrapper("open_fence_only", Fence \o <<Junk, NL>>, <<>>, FALSE),
      Wrapper("fence_no_newline", Fence, Fence, FALSE),
      Wrapper("fence_no_newline_pretty", Fence, Fence, TRUE),
      Wrapper("extra_close", <<>>, <<Space, RB>>, FALSE),
      Wrapper("extra_open", <<LB, Space>>, <<>>, FALSE) }

Wrap(w, members) == w.pre \o Serialize(Obj(members), w.pretty) \o w.post

\* a reply: how it was made (kind, wrapper, members) and its text
Reply(kind, wrapper, members, text) ==
    [kind |-> kind, wrapper |-> wrapper, members |-> members, text |-> text]

ObjectReplies ==
    {Reply("object", w.name, ms, Wrap(w, ms)) :
        w \in Wrappers, ms \in SeqsUpTo(MemberChoices, MaxMembers)}

\* the reply of the specification's scenario: four members in a tagged fence
ExampleMembers ==
    <<Member("prediction", Str("X")), Member("confidence", Num("0.9")),
      Member("risk_level", Str("high")), Member("recommendations", List("a,b"))>>

ExampleReply ==
    Reply("object", "fence_tag", ExampleMembers,
          Fence \o <<Junk, NL>> \o Serialize(Obj(ExampleMembers), FALSE) \o <<NL>> \o Fence)

Pad(n) == [i \in 1..n |-> Junk]

\* replies that hold no JSON object
MalformedTexts ==
    { <<>>,
      <<Space, NL>>,
      <<Junk, Junk>>,
      Fence \o <<Junk, NL, Junk, NL>> \o Fence,
      <<LB>>,
      <<RB, Space, LB>>,
      <<LB, Junk, RB>>,
      <<LB, Str("prediction"), Space, Str("X"), RB>>,
      <<LB, Str("prediction"), Colon, Str("X"), Comma, RB>>,
      <<LB, Str("prediction"), Colon, Str("X")>>,
      <<LB, Str("prediction"), Colon, RB>>,
      <<LB, RB, Space, LB, RB>>,
      Pad(PredictionMax),
      Pad(PredictionMax + 1),
      <<LB>> \o Pad(PredictionMax) \o <<RB>>,
      Pad(PredictionMax - 1) \o <<Str("abc")>> }

MalformedReplies == {Reply("malformed", "none", <<>>, t) : t \in MalformedTexts}

Replies == ObjectReplies \cup MalformedReplies \cup {ExampleReply}

ParseResponse ==
    /\ op = "idle"
    /\ \E reply \in Replies :
         /\ op' = "parse_response"
         /\ args' = [reply |-> reply]
         /\ ret' = ParseResponseResult(reply.text)
         /\ effects' = NoEffects

-----------------------------------------------------------------------------
(* _call_gemini_api and _download_image *)

\* What the AI endpoint answers to the POST: a network failure, a status
\* other than 200, or 200 with a body that is not JSON, with an envelope
\* lacking candidates, parts or text, or with a text
ApiAnswer(kind, reply) == [kind |-> kind, reply |-> reply]

NoReply == Reply("none", "none", <<>>, <<>>)

ApiFailures == {ApiAnswer(k, NoReply) : k \in {"network_error", "non_200", "ok_not_json"}}

ApiEmpty == {ApiAnswer(k, NoReply) : k \in {"ok_no_candidates", "ok_no_parts", "ok_no_text"}}

GenerateCall(prompt, image) ==
    [call |-> "generateContent", prompt |-> prompt, image |-> image]

DownloadCall == [call |-> "download", prompt |-> "", image |-> FALSE]

\* _call_gemini_api: the text it returns or the exception it raises
CallGeminiApi(answer) ==
    CASE answer.kind = "network_error" -> Raised("httpx.RequestError")
      [] answer.kind = "non_200" -> Raised("Exception")
      [] answer.kind = "ok_not_json" -> Raised("JSONDecodeError")
      [] answer.kind = "ok_text" -> Returned(answer.reply.text)
      [] OTHER -> Returned(<<>>)

\* the request carries an image part when image_data is truthy
HasImagePart(image_data) == image_data = "bytes"

\* what the image host answers to the GET
DownloadOutcomes == {"ok_bytes", "ok_empty", "non_200", "network_error"}

\* _download_image: the content on a 200, None otherwise
DownloadImage(outcome) ==
    CASE outcome = "ok_bytes" -> "bytes"
      [] outcome = "ok_empty" -> "empty"
      [] OTHER -> "none"

-----------------------------------------------------------------------------
(* _build_prompt and analyze_ecg *)

\* session["questionnaire"]: the key absent, its value null, or a mapping
Questionnaires == {"absent", "null", "mapping"}

\* the profile: None, an empty or non-empty mapping (the annotated type), or
\* an object with a medical history (or None) and medications (or none)
Profile(kind, history, medications) ==
    [kind |-> kind, medical_history |-> history, medications |-> medications]

ObjectProfiles ==
    {Profile("object", h, m) : h \in BOOLEAN, m \in {"none", "empty", "list"}}

AnalysisProfiles ==
    {Profile("none", FALSE, "none"), Profile("empty_dict", FALSE, "none"),
     Profile("dict", FALSE, "none")} \cup ObjectProfiles

\* not profile
ProfileFalsy(profile) == profile.kind \in {"none", "empty_dict"}

\* _build_prompt: the exception it raises ("" when it returns a prompt)
BuildPromptError(questionnaire, profile) ==
    IF profile.kind = "dict" THEN "AttributeError"        \* profile.medical_history
    ELSE IF questionnaire = "null" THEN "AttributeError"  \* questionnaire.get
    ELSE ""

\* the prompts are told apart by their template
BuildPrompt(questionnaire, profile, r_peaks) == "analysis"

\* the result analyze_ecg returns when the call or the parse raised
AnalysisUnavailable(exc) ==
    AnalysisResult(Value("str", "Analysis unavailable", <<Member("error", Str(exc))>>),
                   0, Str("low"),
                   List("Please try again later or consult a healthcare professional"),
                   Value("absent", "", <<>>), Value("absent", "", <<>>),
                   Value("absent", "", <<>>), Value("absent", "", <<>>))

Outcome(result, calls) == [ret |-> result, effects |-> calls]

\* analyze_ecg: its outcome and the outbound calls it makes, in order
AnalyzeEcgResult(has_url, download, questionnaire, profile, r_peaks, answer) ==
    LET downloads == IF has_url THEN <<DownloadCall>> ELSE <<>>
        image_data == IF has_url THEN DownloadImage(download) ELSE "none"
        err == BuildPromptError(questionnaire, profile)
    IN  IF err # "" THEN Outcome(Raised(err), downloads)
        ELSE LET prompt == BuildPrompt(questionnaire, profile, r_peaks)
                 calls == Append(downloads,
                                 GenerateCall(prompt, HasImagePart(image_data)))
                 result == CallGeminiApi(answer)
             IN  IF result.raised
                 THEN Outcome(Returned(AnalysisUnavailable(result.exc)), calls)
                 ELSE LET parsed == ParseResponseResult(result.val)
                      IN  IF parsed.raised
                          THEN Outcome(Returned(AnalysisUnavailable(parsed.exc)), calls)
                          ELSE Outcome(parsed, calls)

\* replies tried in the analysis flow: a bare object of at most one member,
\* the scenario's reply, and the texts holding no object
AnalysisReplies ==
    {r \in ObjectReplies : r.wrapper = "bare" /\ Len(r.members) <= 1}
        \cup {ExampleReply} \cup MalformedReplies

AnalysisAnswers ==
    ApiFailures \cup ApiEmpty \cup {ApiAnswer("ok_text", r) : r \in AnalysisReplies}

AnalysisPeaks == {<<>>, <<RR(800), RR(810)>>}

AnalyzeEcg ==
    /\ op = "idle"
    /\ \E has_url \in BOOLEAN, questionnaire \in Questionnaires, profile \in AnalysisProfiles,
          r_peaks \in AnalysisPeaks, answer \in AnalysisAnswers :
       \E download \in IF has_url THEN DownloadOutcomes ELSE {"not_requested"} :
         LET r == AnalyzeEcgResult(has_url, download, questionnaire, profile,
                                   r_peaks, answer)
         IN  /\ op' = "analyze_ecg"
             /\ args' = [has_url |-> has_url, download |-> download,
                         questionnaire |-> questionnaire, profile |-> profile,
                         r_peaks |-> r_peaks, answer |-> answer]
             /\ ret' = r.ret
             /\ effects' = r.effects

-----------------------------------------------------------------------------
(* chat_with_context *)

Clarify == Str("I'm here to help! Could you please rephrase your question?")
TryAgain == Str("I'm having trouble connecting right now. Please try again in a moment!")

\* the profile a chat request reads from storage: None or a profile object
ChatProfiles == {Profile("none", FALSE, "none")} \cup ObjectProfiles

\* Mutant: the reply is stripped before it is tested for a leading brace
ChatStripFirst(profile, answer) ==
    LET result == CallGeminiApi(answer)
        calls == <<GenerateCall("chat", FALSE)>>
    IN  IF result.raised THEN Outcome(Returned(TryAgain), calls)
        ELSE IF StartsWith(Strip(result.val), <<LB>>) THEN Outcome(Returned(Clarify), calls)
        ELSE Outcome(Returned(Text(Strip(result.val))), calls)

\* chat_with_context: the reply text and the outbound call made
ChatWithContextResult(profile, answer) ==
    LET result == CallGeminiApi(answer)
        calls == <<GenerateCall("chat", FALSE)>>
    IN  IF result.raised THEN Outcome(Returned(TryAgain), calls)
        ELSE IF StartsWith(result.val, <<LB>>) THEN Outcome(Returned(Clarify), calls)
        ELSE Outcome(Returned(Text(Strip(result.val))), calls)

\* conversational replies
ChatTexts ==
    { <<>>, <<Junk>>, <<Space, Junk, Space, Junk, NL>>, <<NL, Space>>,
      <<LB, Junk>>, <<Space, LB, Junk>>, <<NL, LB, RB>>, <<Junk, LB>>,
      <<LB>>, Fence \o <<LB, RB>> \o Fence }

ChatAnswers ==
    ApiFailures \cup ApiEmpty
        \cup {ApiAnswer("ok_text", Reply("chat", "none", <<>>, t)) : t \in ChatTexts}
        \cup {ApiAnswer("ok_text", r) :
                r \in {o \in ObjectReplies : Len(o.members) <= 1 /\ ~o.wrapper = "prose"}}

ChatWithContext ==
    /\ op = "idle"
    /\ \E profile \in ChatProfiles, answer \in ChatAnswers :
         LET r == ChatWithContextResult(profile, answer)
         IN  /\ op' = "chat_with_context"
             /\ args' = [profile |-> profile, answer |-> answer]
             /\ ret' = r.ret
             /\ effects' = r.effects

-----------------------------------------------------------------------------
(* send_chat_message *)

\* Calls on the storage collaborator
RecentCall(limit) == [call |-> "get_recent_sessions_basic", limit |-> limit]
ProfileCall == [call |-> "get_user_profile"]
SaveCall(user_message, ai_response, intent, session_ids) ==
    [call |-> "save_chat_message", user_message |-> user_message,
     ai_response |-> ai_response, intent |-> intent, session_ids |-> session_ids]

\* ChatResponse(response, intent, session_ids, created_at); the clock is left out
ChatResponse(response, intent, session_ids) ==
    [response |-> response, intent |-> intent, session_ids |-> session_ids]

\* The handler's local variables; a variable not assigned yet holds Unset
Unset == "unset"

Locals(request, store, intent, session_ids, context, user_profile, answer, response) ==
    [request |-> request, store |-> store, intent |-> intent,
     session_ids |-> session_ids, context |-> context,
     user_profile |-> user_profile, answer |-> answer, response |-> response]

\* request: ChatMessage (message of 1..2000 characters, optional session_id)
ChatMessage(message, session_id) == [message |-> message, session_id |-> session_id]

ChatRequests ==
    {ChatMessage(message, session_id) : message \in Fragments, session_id \in OptionalIds}

\* the user's stored sessions: none, one or two, every heart rate present
RequestStorages == {Storage(n, FALSE) : n \in 0..2}

RequestAnswers ==
    ApiFailures \cup ApiEmpty
        \cup {ApiAnswer("ok_text", Reply("chat", "none", <<>>, t)) : t \in ChatTexts}

\* intent, session_ids = await _detect_intent(...)
SendDetectIntent ==
    /\ op = "idle"
    /\ \E request \in ChatRequests, store \in RequestStorages :
         LET r == DetectIntentResult(request.message, request.session_id, store)
         IN  /\ op' = "send_detected"
             /\ args' = Locals(request, store, r.intent, r.session_ids,
                               Unset, Unset, Unset, Unset)
             /\ effects' = [i \in 1..Len(r.lookups) |-> RecentCall(r.lookups[i])]
    /\ UNCHANGED ret

\* context = await _build_context(...); an exception ends the request
SendBuildContext ==
    /\ op = "send_detected"
    /\ LET r == BuildContextResult(args.session_ids, args.store)
       IN  /\ effects' = effects \o r.lookups
           /\ IF r.exc = ""
              THEN /\ op' = "send_context"
                   /\ args' = [args EXCEPT !.context = r.parts]
                   /\ UNCHANGED ret
              ELSE /\ op' = "send_chat_message"
                   /\ ret' = Raised(r.exc)
                   /\ UNCHANGED args

\* user_profile = await supabase.get_user_profile(user.id)
SendReadProfile ==
    /\ op = "send_context"
    /\ \E user_profile \in ChatProfiles :
         args' = [args EXCEPT !.user_profile = user_profile]
    /\ op' = "send_profile"
    /\ effects' = Append(effects, ProfileCall)
    /\ UNCHANGED ret

\* response = await gemini.chat_with_context(...)
SendGenerate ==
    /\ op = "send_profile"
    /\ \E answer \in RequestAnswers :
         LET r == ChatWithContextResult(args.user_profile, answer)
         IN  /\ args' = [args EXCEPT !.answer = answer, !.response = r.ret.val]
             /\ effects' = effects \o r.effects
    /\ op' = "send_replied"
    /\ UNCHANGED ret

\* await supabase.save_chat_message(...)
SendSaveHistory ==
    /\ op = "send_replied"
    /\ op' = "send_saved"
    /\ effects' = Append(effects, SaveCall(args.request.message, args.response,
                                           args.intent, args.session_ids))
    /\ UNCHANGED <<args, ret>>

\* return ChatResponse(...)
SendReturn ==
    /\ op = "send_saved"
    /\ op' = "send_chat_message"
    /\ ret' = Returned(ChatResponse(args.response, args.intent, args.session_ids))
    /\ UNCHANGED <<args, effects>>

-----------------------------------------------------------------------------

Init ==
    /\ op = "idle"
    /\ args = <<>>
    /\ ret = Returned(<<>>)
    /\ effects = NoEffects

Next ==
    \/ DetectIntent
    \/ BuildContext
    \/ CalculateHrv
    \/ ParseResponse
    \/ AnalyzeEcg
    \/ ChatWithContext

Spec == Init /\ [][Next]_vars

\* One chat request, from its arrival to its return or its failure
SendNext ==
    \/ SendDetectIntent
    \/ SendBuildContext
    \/ SendReadProfile
    \/ SendGenerate
    \/ SendSaveHistory
    \/ SendReturn

SendSpec == Init /\ [][SendNext]_vars

-----------------------------------------------------------------------------
(* Claims about _detect_intent *)

IsDetect == op = "detect_intent"

MatchesComparison == AnyKeyword(Lower(args.message), ComparisonKeywords)
MatchesTrend == AnyKeyword(Lower(args.message), TrendKeywords)
MatchesSession == AnyKeyword(Lower(args.message), SessionKeywords)

\* the ids of the k most recent stored sessions
MostRecentIds(k) ==
    [i \in 1..Min(k, Len(args.store)) |-> IntToStr(args.store[i].id)]

ExplicitWins ==
    /\ ~ret.raised
    /\ ret.val.intent = "session_specific"
    /\ ret.val.session_ids = <<args.session_id.s>>
    /\ effects = <<>>

\* C1 as stated: for every message and every session id string the caller
\* supplies (the empty string included), _detect_intent returns
\* "session_specific" with exactly [that id] and asks the recent-sessions
\* collaborator nothing.
C1_EverySuppliedIdWins ==
    (IsDetect /\ args.session_id.some) => ExplicitWins

\* C1 amended: for every message and every NON-EMPTY session id supplied,
\* _detect_intent returns "session_specific" with exactly [that id], whatever
\* keywords the message contains, without consulting the recent-sessions
\* collaborator.
C1_NonEmptyIdWins ==
    (IsDetect /\ args.session_id.some /\ args.session_id.s # <<>>) => ExplicitWins

\* C1 witness: a non-empty id given with a message holding a comparison and
\* a trend keyword, classified session_specific
C1_Witness ==
    /\ IsDetect
    /\ args.session_id.some /\ args.session_id.s # <<>>
    /\ MatchesComparison /\ MatchesTrend
    /\ Len(args.store) >= 2
    /\ ret.val.intent = "session_specific"
    /\ ret.val.session_ids = <<args.session_id.s>>

\* C2: with no explicit session id the keyword sets are tried in the order
\* comparison, trend, session_query on the lower-cased message, first match
\* wins: comparison -> the 2 most recent ids, else trend -> the 7 most recent,
\* else session_query -> the most recent one, else general_health with no ids.
C2_KeywordOrder ==
    (IsDetect /\ ~args.session_id.some) =>
        /\ ~ret.raised
        /\ MatchesComparison =>
              /\ ret.val.intent = "comparison"
              /\ ret.val.session_ids = MostRecentIds(2)
        /\ (~MatchesComparison /\ MatchesTrend) =>
              /\ ret.val.intent = "trend_analysis"
              /\ ret.val.session_ids = MostRecentIds(7)
        /\ (~MatchesComparison /\ ~MatchesTrend /\ MatchesSession) =>
              /\ ret.val.intent = "session_query"
              /\ ret.val.session_ids = MostRecentIds(1)
        /\ (~MatchesComparison /\ ~MatchesTrend /\ ~MatchesSession) =>
              /\ ret.val.intent = "general_health"
              /\ ret.val.session_ids = <<>>
              /\ effects = <<>>

\* C2 witness: no explicit id, a message with a comparison, a trend and a
\* session_query keyword in upper and lower case, more than 2 sessions
\* stored: "comparison" with exactly 2 ids
C2_Witness ==
    /\ IsDetect
    /\ ~args.session_id.some
    /\ MatchesComparison /\ MatchesTrend
    /\ args.message # Lower(args.message)
    /\ Len(args.store) > 2
    /\ ret.val.intent = "comparison"
    /\ Len(ret.val.session_ids) = 2

-----------------------------------------------------------------------------
(* Claims about _build_context *)

IsBuild == op = "build_context"

\* the id string names a stored session
Exists(session_id) ==
    IntParses(session_id) /\ HasSession(args.store, IntOf(session_id))

ExistingPositions == {i \in 1..Len(args.session_ids) : Exists(args.session_ids[i])}

\* the stored record of the session at position i renders (numeric rates)
Renders(i) ==
    get_complete_session(args.store, IntOf(args.session_ids[i])).average_heart_rate
        # NullRate

\* the case C7 is about: 2 well-formed ids, exactly one of them not stored,
\* the stored one a record that renders
OneOfTwoMissing ==
    /\ IsBuild
    /\ Len(args.session_ids) = 2
    /\ \A i \in 1..2 : IntParses(args.session_ids[i])
    /\ Cardinality(ExistingPositions) = 1
    /\ \A i \in ExistingPositions : Renders(i)

C8_UnresolvableSkipped ==
    (IsBuild /\ ExistingPositions = {}) => (~ret.raised /\ ret.val = <<>>)

-----------------------------------------------------------------------------
(* Claims about _calculate_hrv *)

IsHrv == op = "calculate_hrv"

\* the entries carrying a present, strictly positive interval
PositiveEntries ==
    {i \in 1..Len(args.r_peaks) :
        /\ args.r_peaks[i].present
        /\ ~args.r_peaks[i].null
        /\ args.r_peaks[i].v > 0}

\* C10: _calculate_hrv returns SDNN = 0.0 and RMSSD = 0.0 without raising for
\* every sequence of length 0 or 1 and every sequence with fewer than 2
\* present, strictly positive intervals (absent, null, zero and negative
\* ones are discarded before counting).
C10_FewIntervalsZero ==
    (IsHrv /\ (Len(args.r_peaks) < 2 \/ Cardinality(PositiveEntries) < 2)) =>
        (~ret.raised /\ ret.val.sdnn = 0 /\ ret.val.rmssd = 0)

\* C10 witness: 3 or more records, one positive interval among a negative
\* one and a null or absent one: the zero result
C10_Witness ==
    /\ IsHrv
    /\ Len(args.r_peaks) >= 3
    /\ Cardinality(PositiveEntries) = 1
    /\ \E i \in 1..Len(args.r_peaks) : args.r_peaks[i] = RR(-5)
    /\ \E i \in 1..Len(args.r_peaks) : ~ValidRR(args.r_peaks[i]) /\ args.r_peaks[i].v = 0
    /\ ret.val = Hrv(0, 0)

\* the present, strictly positive intervals of the call, in order
RECURSIVE KeptFrom(_)
KeptFrom(i) ==
    IF i > Len(args.r_peaks) THEN <<>>
    ELSE (IF i \in PositiveEntries THEN <<args.r_peaks[i].v>> ELSE <<>>)
         \o KeptFrom(i + 1)

Kept == KeptFrom(1)

RECURSIVE Total(_, _)
Total(f, n) == IF n = 0 THEN 0 ELSE f[n] + Total(f, n - 1)

\* n * (sum of the squared deviations from the mean), n = Len(xs)
ScaledDeviations(xs) ==
    LET n == Len(xs)
        sum == Total(xs, n)
    IN  Total([i \in 1..n |-> (n * xs[i] - sum) * (n * xs[i] - sum)], n) \div n

\* the sum of the squared differences between consecutive intervals
SquaredSteps(xs) ==
    Total([i \in 1..(Len(xs) - 1) |-> (xs[i + 1] - xs[i]) * (xs[i + 1] - xs[i])],
          Len(xs) - 1)

\* r, in hundredths, is sqrt(num / den) rounded down
IsRootOf(r, num, den) ==
    /\ r >= 0
    /\ r * r * den <= 10000 * num
    /\ 10000 * num < (r + 1) * (r + 1) * den

\* SDNN is the sample standard deviation of the kept intervals and RMSSD the
\* root of the mean squared difference between consecutive kept intervals
StandardFormulas ==
    (IsHrv /\ Len(args.r_peaks) >= 2 /\ Len(Kept) >= 2) =>
        /\ ~ret.raised
        /\ IsRootOf(ret.val.sdnn, ScaledDeviations(Kept), Len(Kept) * (Len(Kept) - 1))
        /\ IsRootOf(ret.val.rmssd, SquaredSteps(Kept), Len(Kept) - 1)

ExampleIntervals == Kept = <<800, 810, 790, 805>>

\* C11 as stated: on the R-R intervals [800, 810, 790, 805] _calculate_hrv
\* yields SDNN of about 8.54 and RMSSD of about 14.3 (to within 0.1), SDNN
\* being the sample standard deviation and RMSSD the root of the mean
\* squared difference between consecutive filtered intervals.
C11_ExampleRmssd143 ==
    /\ StandardFormulas
    /\ (IsHrv /\ ExampleIntervals) =>
          /\ Abs(ret.val.sdnn - 854) <= 1
          /\ Abs(ret.val.rmssd - 1430) <= 10

\* C11: on the R-R intervals [800, 810, 790, 805] _calculate_hrv yields SDNN
\* of about 8.54 and RMSSD of about 15.55 (to within 0.01), SDNN being the
\* sample standard deviation of the filtered intervals and RMSSD the square
\* root of the mean of the squared differences between consecutive filtered
\* intervals.
C11_ExampleRmssd1555 ==
    /\ StandardFormulas
    /\ (IsHrv /\ ExampleIntervals) =>
          /\ Abs(ret.val.sdnn - 854) <= 1
          /\ Abs(ret.val.rmssd - 1555) <= 1

\* C11 witness: the call on exactly the four records 800, 810, 790, 805 has
\* returned a non-zero SDNN and RMSSD
C11_Witness ==
    /\ IsHrv
    /\ args.r_peaks = <<RR(800), RR(810), RR(790), RR(805)>>
    /\ ~ret.raised
    /\ ret.val.sdnn > 0
    /\ ret.val.rmssd > 0

-----------------------------------------------------------------------------
(* Claims about _parse_response *)

IsParse == op = "parse_response"

\* the value the reply's object gives key k (the last member wins), or d
RECURSIVE Given(_, _, _)
Given(members, k, d) ==
    IF members = <<>> THEN d
    ELSE IF members[Len(members)].k = k THEN members[Len(members)].val
    ELSE Given(SubSeq(members, 1, Len(members) - 1), k, d)

Absent == Value("absent", "", <<>>)

\* the reply is a well-formed object, bare, in prose, or inside a fence
\* whose opening line ends with a newline
HoldsObject(reply) ==
    /\ reply.kind = "object"
    /\ reply.wrapper \in {"bare", "fence_tag", "fence_tag_pretty", "fence",
                          "fence_spaced", "prose", "open_fence_only"}

GivenConfidence(reply) == Given(reply.members, "confidence", Absent)

\* the confidence of the reply's object is present with the wrong type
WrongTypeConfidence(reply) ==
    \/ GivenConfidence(reply).t \in {"null", "list", "obj"}
    \/ GivenConfidence(reply).t = "str" /\ GivenConfidence(reply).s \notin {"0.9", "1"}

HasBrace(text) == \E i \in 1..Len(text) : text[i] \in {LB, RB}

\* the reply is one of the parse failures: no braces, a malformed JSON
\* substring, or an object with a wrong-typed confidence
IsParseFailure(reply) ==
    \/ ~HasBrace(reply.text)
    \/ reply.kind = "malformed"
    \/ HoldsObject(reply) /\ WrongTypeConfidence(reply)

\* the first 200 characters of the text
First200(text) ==
    IF TextLen(text) <= 200 THEN text
    ELSE CHOOSE p \in {SubSeq(text, 1, n) : n \in 0..Len(text)} :
            TextLen(p) = 200
            \/ (TextLen(p) < 200 /\ TextLen(SubSeq(text, 1, Len(p) + 1)) > 200)

IsFallbackOf(result, text) ==
    /\ Len(result.prediction.o) >= Len(First200(text))
    /\ \A i \in 1..Len(First200(text)) : result.prediction.o[i].val = text[i]
    /\ TextLen(text) <= 200 => Len(result.prediction.o) = Len(text)
    /\ result.confidence_score = 50
    /\ result.risk_level = Str("low")
    /\ result.recommendations =
          List("Please consult a healthcare professional for interpretation")
    /\ result.clinical_analysis = Str("")
    /\ result.diagnosis_summary = Str("")
    /\ result.detailed_analysis = Str("")
    /\ result.summary = Str("")

\* C4: _parse_response never raises, and on every parse failure (no braces,
\* malformed JSON, or a field present with the wrong type such as a null,
\* list or non-numeric confidence) returns the fixed fallback result.
C4_ParseFailureFallsBack ==
    IsParse =>
        /\ ~ret.raised
        /\ IsParseFailure(args.reply) => IsFallbackOf(ret.val, args.reply.text)

\* the fields of the reply's object with the documented defaults, every
\* present field unchanged
FieldsUnchanged(result, reply) ==
    /\ result.prediction = Given(reply.members, "prediction", Str("ECG Analysis Complete"))
    /\ result.risk_level = Given(reply.members, "risk_level", Str("low"))
    /\ result.recommendations = Given(reply.members, "recommendations", List(""))
    /\ result.clinical_analysis = Given(reply.members, "clinical_analysis", Str(""))
    /\ result.diagnosis_summary = Given(reply.members, "simple_explanation", Str(""))
    /\ result.summary = Given(reply.members, "summary", Str(""))

ConfidenceCoerced(result, reply) ==
    result.confidence_score =
        (CASE GivenConfidence(reply) = Absent -> 75
           [] GivenConfidence(reply).s = "0.9" -> 90
           [] GivenConfidence(reply).s = "1" -> 100
           [] OTHER -> -1)

\* C5 as stated: when the text holds a well-formed JSON object, optionally
\* fenced, _parse_response returns that object's fields with the documented
\* defaults, every present field unchanged (confidence coerced to a real).
C5_FieldsReturnedUnchanged ==
    (IsParse /\ HoldsObject(args.reply)) =>
        /\ ~ret.raised
        /\ FieldsUnchanged(ret.val, args.reply)
        /\ ConfidenceCoerced(ret.val, args.reply)
        /\ ret.val.detailed_analysis =
              Given(args.reply.members, "detailed_analysis", Str(""))

\* the detailed_analysis returned for the one given
DetailedAsRendered(result, reply) ==
    LET given == Given(reply.members, "detailed_analysis", Absent)
    IN  CASE given.t = "str" -> result.detailed_analysis = given
          [] given.t = "obj" /\ given.o # <<>> ->
                /\ result.detailed_analysis.t = "str"
                /\ Len(result.detailed_analysis.o) = 4
                /\ \A i \in 1..4 :
                      result.detailed_analysis.o[i].val =
                          Given(given.o, result.detailed_analysis.o[i].k, Str("N/A"))
                /\ {result.detailed_analysis.o[i].k : i \in 1..4} =
                      {"rhythm_assessment", "rate_analysis",
                       "hrv_interpretation", "clinical_significance"}
          [] OTHER -> result.detailed_analysis = Str("")

\* C5 amended: when the text holds a well-formed JSON object, optionally
\* fenced, whose confidence is absent, a number or a numeric string,
\* _parse_response returns the object's fields with the documented defaults
\* (prediction "ECG Analysis Complete", confidence 0.75, risk_level "low",
\* recommendations [], the text fields ""), prediction, risk_level,
\* recommendations, clinical_analysis, simple_explanation and summary
\* unchanged, confidence coerced to a real, and detailed_analysis rendered:
\* a non-empty object as the four-section text with "N/A" for a missing
\* section, a string verbatim, anything else as "".  With a confidence of
\* another type the object's fields are not returned.
C5_FieldsReturnedWhenConfidenceNumeric ==
    (IsParse /\ HoldsObject(args.reply)) =>
        IF WrongTypeConfidence(args.reply)
        THEN ret.raised \/ ~FieldsUnchanged(ret.val, args.reply)
        ELSE /\ ~ret.raised
             /\ FieldsUnchanged(ret.val, args.reply)
             /\ ConfidenceCoerced(ret.val, args.reply)
             /\ DetailedAsRendered(ret.val, args.reply)

\* C5 witness: the scenario's reply, four members inside a tagged fence,
\* parsed to its fields with empty defaults for the rest
C5_Witness ==
    /\ IsParse
    /\ args.reply = ExampleReply
    /\ ~ret.raised
    /\ ret.val.prediction = Str("X")
    /\ ret.val.confidence_score = 90
    /\ ret.val.risk_level = Str("high")
    /\ ret.val.recommendations = List("a,b")
    /\ ret.val.clinical_analysis = Str("")
    /\ ret.val.diagnosis_summary = Str("")
    /\ ret.val.detailed_analysis = Str("")
    /\ ret.val.summary = Str("")

-----------------------------------------------------------------------------
(* Claims about analyze_ecg *)

IsAnalyze == op = "analyze_ecg"

GenerateCalls == {i \in 1..Len(effects) : effects[i].call = "generateContent"}
DownloadCalls == {i \in 1..Len(effects) : effects[i].call = "download"}

\* C3: for every session, profile and R-peak list, analyze_ecg does not
\* raise, and when the AI endpoint answers with a non-200 status or fails at
\* network level it returns risk_level "low", confidence_score 0.0 and
\* exactly one generic recommendation.
C3_AnalyzeNeverRaises ==
    IsAnalyze =>
        /\ ~ret.raised
        /\ args.answer.kind \in {"non_200", "network_error"} =>
              /\ ret.val.risk_level = Str("low")
              /\ ret.val.confidence_score = 0
              /\ ret.val.recommendations =
                    List("Please try again later or consult a healthcare professional")

\* C9: whatever the image download does (success, non-200, network failure)
\* nothing is propagated: the generation call is issued exactly once, with an
\* image part only when image bytes were obtained, no outbound call is
\* repeated, and analyze_ecg returns a result.
C9_DownloadNeverBlocksAnalysis ==
    (IsAnalyze /\ args.has_url) =>
        /\ ~ret.raised
        /\ Cardinality(GenerateCalls) = 1
        /\ Cardinality(DownloadCalls) = 1
        /\ \A i \in GenerateCalls : effects[i].image <=> args.download = "ok_bytes"

-----------------------------------------------------------------------------
(* Claims about chat_with_context *)

IsChat == op = "chat_with_context"

\* the text the AI client hands back ("" when the envelope holds none)
ReturnedText == IF args.answer.kind = "ok_text" THEN args.answer.reply.text ELSE <<>>

\* the text without its leading and trailing white space
Trimmed(text) ==
    LET inner == {i \in 1..Len(text) : text[i] \notin {Space, NL}}
    IN  IF inner = {} THEN <<>>
        ELSE SubSeq(text, CHOOSE i \in inner : \A j \in inner : i <= j,
                          CHOOSE i \in inner : \A j \in inner : i >= j)

-----------------------------------------------------------------------------
(* Claims about send_chat_message *)

SendPositions ==
    {"send_detected", "send_context", "send_profile", "send_replied", "send_saved"}

RequestEnded == op = "send_chat_message"

IsSend == op \in SendPositions \/ RequestEnded

\* the step of the request an outbound call belongs to
StepOf(c) ==
    CASE c.call = "get_recent_sessions_basic" -> 1
      [] c.call = "get_complete_session" -> 2
      [] c.call = "get_user_profile" -> 3
      [] c.call = "generateContent" -> 4
      [] c.call = "save_chat_message" -> 5

CallsOfStep(n) == {i \in 1..Len(effects) : StepOf(effects[i]) = n}

HistoryWrites == CallsOfStep(5)

\* C12: in one send_chat_message request the outbound calls are made in the
\* order detect intent, build context, read profile, generate reply, write
\* chat history, and then the handler returns; the chat-history write is made
\* exactly once, after the reply was produced, and records exactly the
\* response text, intent tag and session id list returned to the caller,
\* also when the reply is the clarifying or the "try again" message.
C12_OneHistoryWriteThenReturn ==
    IsSend =>
        /\ \A i, j \in 1..Len(effects) : i < j => StepOf(effects[i]) <= StepOf(effects[j])
        /\ \A n \in {3, 4, 5} : Cardinality(CallsOfStep(n)) <= 1
        /\ HistoryWrites # {} => (CallsOfStep(4) # {} /\ op \in {"send_saved", "send_chat_message"})
        /\ RequestEnded =>
              /\ ~ret.raised
              /\ Cardinality(HistoryWrites) = 1
              /\ \A i \in HistoryWrites :
                    ChatResponse(effects[i].ai_response, effects[i].intent,
                                 effects[i].session_ids) = ret.val

=============================================================================
